---- MODULE Spec2Model ----
(***************************************************************************)
(* txjuju.testing.api: the two test doubles of the Juju API client.        *)
(*                                                                         *)
(*   FakeAPIClientProtocol  a fake APIClientProtocol: requests are kept in *)
(*                          a FIFO list and answered by response()/error() *)
(*   FakeAPIBackend         a fake transport driving the real              *)
(*                          txjuju.protocol.APIClientProtocol              *)
(*                                                                         *)
(* One instance of one of the two classes is constructed (obj) and then    *)
(* driven by arbitrary calls.  A call that raises leaves the mutations it  *)
(* made before the raise; the exception a call raises from the current     *)
(* state is given by the operator named after the call (responseExc, ...). *)
(***************************************************************************)
EXTENDS Integers, Sequences, FiniteSets, TLC

VARIABLES
    obj,                \* the class that was instantiated
    connected,          \* the instance's `connected` attribute
    deferreds,          \* the Deferreds returned by sendRequest, in order
    disconnected,       \* FakeAPIClientProtocol.disconnected (a Deferred)
    _pending_requests,  \* FakeAPIClientProtocol._pending_requests
    _queued_errors,     \* FakeAPIClientProtocol._queued_errors
    _queued_responses,  \* FakeAPIClientProtocol._queued_responses
    requests,           \* FakeAPIBackend.requests: request id -> payload
    pending,            \* FakeAPIBackend.pending: request ids not yet fired
    protocol,           \* FakeAPIBackend.protocol (an APIClientProtocol)
    watcher,            \* the Delta Stream Consumer on that protocol
    version,            \* FakeAPIBackend.version
    written             \* history: the payloads handed to write

vars == <<obj, connected, deferreds, disconnected,
          _pending_requests, _queued_errors, _queued_responses,
          requests, pending, version, protocol, watcher, written>>

fakeVars == <<disconnected, _pending_requests, _queued_errors,
              _queued_responses>>

backendVars == <<requests, pending, protocol, watcher, written>>

\* FakeAPIBackend.__init__(version=1)
Versions == {1, 2}

----------------------------------------------------------------------------
(* Bounds *)

\* FakeAPIClientProtocol.sendRequest calls that return a Deferred
MaxSends == 2
\* request ids the APIClientProtocol allocates
MaxRequests == 3
\* length of each of _queued_responses and _queued_errors
MaxQueued == 2

\* calls of FakeAPIBackend.loseConnection
MaxLost == 2

----------------------------------------------------------------------------
(* Inputs *)

\* the requestId argument of FakeAPIBackend.response and error: None (0) or
\* an id, written or not
RequestIds == 0..MaxRequests
\* entities of txjuju's entity classes, and one of a class the backend has
\* no formatter for
Machine0 == [class |-> "MachineInfo", id |-> "0", instanceId |-> "i-123",
             status |-> "started"]
Unit0 == [class |-> "UnitInfo", name |-> "mysql/0", applicationName |-> "mysql",
          charmURL |-> "cs:mysql"]
App0 == [class |-> "JujuApplicationInfo", name |-> "mysql", charmURL |-> "cs:mysql"]
Other0 == [class |-> "ActionInfo", name |-> "a"]
\* the deltas arguments of responseDeltas
DeltaBatches ==
    {<<[entity |-> Machine0, verb |-> "None"]>>,
     <<[entity |-> Unit0, verb |-> "remove"], [entity |-> App0, verb |-> "None"]>>,
     <<[entity |-> Other0, verb |-> "None"], [entity |-> Machine0, verb |-> "change"]>>}
\* the exceptions handed to FakeAPIBackend.error
Exceptions == {[error |-> "invalid credentials", code |-> "unauthorized"],
               [error |-> "watcher was stopped", code |-> "watcher stopped"],
               [error |-> "service not found", code |-> "not found"]}

\* (entityType, requestInfo) pairs of the calls made on the fake protocol
RequestKinds == {<<"Admin", "Login">>, <<"Client", "ServiceGet">>}
\* (entityType, requestInfo) pairs of the calls made on the real protocol,
\* besides those of the Delta Stream Consumer
Calls == {<<"Admin", "Login">>}
\* opaque response contents
Contents == {[Value |-> "c1"], [Value |-> "c2"]}
\* failures handed to error()
Reasons == {[type |-> "APIRequestError"]}

----------------------------------------------------------------------------
(* twisted.internet.defer.Deferred, as far as the doubles use it *)

\* the request id of a Deferred no id was assigned to (requestId=None)
NoId == 0

\* Deferred(): request and id are bookkeeping of the model (the call the
\* Deferred was returned for and the request id it is tied to)
Deferred(request, id) ==
    [request |-> request, id |-> id, called |-> FALSE,
     result |-> [kind |-> "none"]]

\* Deferred.callback(value): AlreadyCalledError when it has fired before
Callback(d, value) ==
    IF d.called
    THEN d
    ELSE [d EXCEPT !.called = TRUE,
                   !.result = [kind |-> "callback", value |-> value]]

\* Deferred.errback(failure): AlreadyCalledError when it has fired before
Errback(d, failure) ==
    IF d.called
    THEN d
    ELSE [d EXCEPT !.called = TRUE,
                   !.result = [kind |-> "errback", failure |-> failure]]

\* the exception of firing d
FireExc(d) == IF d.called THEN "AlreadyCalledError" ELSE "none"

----------------------------------------------------------------------------
(* FakeAPIClientProtocol *)

IsFake == obj = "FakeAPIClientProtocol"

\* request = (entityType, requestInfo, entityId, params, facade_version)
Request(entityType, requestInfo) ==
    <<entityType, requestInfo, "None", "None", "1">>

\* list.pop(0)
Tail0(s) == SubSeq(s, 2, Len(s))

\* sendRequest with a queued error: the new Deferred fails at once
SendQueuedError(request) ==
    /\ _queued_errors # <<>>
    /\ _queued_errors' = Tail0(_queued_errors)
    /\ deferreds' = Append(deferreds,
                           Errback(Deferred(request, NoId), _queued_errors[1]))
    /\ UNCHANGED <<_queued_responses, _pending_requests>>

\* the exception sendRequest raises: the asserts on a queued response
sendRequestExc(entityType, requestInfo) ==
    IF /\ _queued_errors = <<>>
       /\ _queued_responses # <<>>
       /\ \/ _queued_responses[1][1] # entityType
          \/ _queued_responses[1][2] # requestInfo
    THEN "AssertionError"
    ELSE "none"

\* sendRequest with a queued response: popped, then the two asserts; when
\* they fail no Deferred is returned
SendQueuedResponse(request) ==
    /\ _queued_errors = <<>>
    /\ _queued_responses # <<>>
    /\ _queued_responses' = Tail0(_queued_responses)
    /\ LET prep == _queued_responses[1]
       IN  IF sendRequestExc(request[1], request[2]) = "none"
           THEN deferreds' = Append(deferreds,
                                    Callback(Deferred(request, NoId), prep[3]))
           ELSE deferreds' = deferreds
    /\ UNCHANGED <<_queued_errors, _pending_requests>>

\* sendRequest with nothing queued: the request becomes pending
SendPending(request) ==
    /\ _queued_errors = <<>>
    /\ _queued_responses = <<>>
    /\ deferreds' = Append(deferreds, Deferred(request, NoId))
    /\ _pending_requests' = Append(_pending_requests, Len(deferreds) + 1)
    /\ UNCHANGED <<_queued_errors, _queued_responses>>

sendRequest(entityType, requestInfo) ==
    /\ IsFake
    /\ Len(deferreds) < MaxSends
    /\ LET request == Request(entityType, requestInfo)
       IN  \/ SendQueuedError(request)
           \/ SendQueuedResponse(request)
           \/ SendPending(request)
    /\ UNCHANGED <<obj, connected, disconnected>>
    /\ UNCHANGED <<backendVars, version>>

\* the `request` property: the last pending request, or None
request == IF _pending_requests # <<>>
           THEN deferreds[_pending_requests[Len(_pending_requests)]].request
           ELSE <<>>

\* the `requests` property
pendingRequests ==
    [i \in 1..Len(_pending_requests) |-> deferreds[_pending_requests[i]].request]

\* the exception response() raises: the assert on the oldest pending
\* request, then the callback on its Deferred
responseExc(entityType, requestInfo) ==
    IF _pending_requests = <<>> THEN "none"
    ELSE LET i == _pending_requests[1]
             expected == <<entityType, requestInfo>>
             obtained == SubSeq(deferreds[i].request, 1, 2)
         IN  IF expected # obtained THEN "AssertionError"
             ELSE FireExc(deferreds[i])

\* response() while a request is pending: pop, assert, callback
ResponsePending(entityType, requestInfo, content) ==
    /\ _pending_requests # <<>>
    /\ _pending_requests' = Tail0(_pending_requests)
    /\ LET i == _pending_requests[1]
       IN  IF responseExc(entityType, requestInfo) = "AssertionError"
           THEN deferreds' = deferreds
           ELSE deferreds' = [deferreds EXCEPT ![i] = Callback(@, content)]
    /\ UNCHANGED <<_queued_errors, _queued_responses>>

\* mutant of ResponseQueued: queued whether or not a request is pending
ResponseQueued_Always(entityType, requestInfo, content) ==
    /\ Len(_queued_responses) < MaxQueued
    /\ _queued_responses' =
         Append(_queued_responses, <<entityType, requestInfo, content>>)
    /\ UNCHANGED <<deferreds, _pending_requests, _queued_errors>>

\* response() while nothing is pending: queued
ResponseQueued(entityType, requestInfo, content) ==
    /\ _pending_requests = <<>>
    /\ Len(_queued_responses) < MaxQueued
    /\ _queued_responses' =
         Append(_queued_responses, <<entityType, requestInfo, content>>)
    /\ UNCHANGED <<deferreds, _pending_requests, _queued_errors>>

response(entityType, requestInfo, content) ==
    /\ IsFake
    /\ \/ ResponsePending(entityType, requestInfo, content)
       \/ ResponseQueued(entityType, requestInfo, content)
    /\ UNCHANGED <<obj, connected, disconnected>>
    /\ UNCHANGED <<backendVars, version>>

\* the exception error() raises: the errback on the oldest pending Deferred
errorExc ==
    IF _pending_requests = <<>> THEN "none"
    ELSE FireExc(deferreds[_pending_requests[1]])

\* mutant of ErrorPending: the error is sent to every pending request
ErrorPending_All(reason) ==
    /\ _pending_requests # <<>>
    /\ _pending_requests' = <<>>
    /\ deferreds' =
         [i \in 1..Len(deferreds) |->
             IF \E k \in 1..Len(_pending_requests) : _pending_requests[k] = i
             THEN Errback(deferreds[i], reason)
             ELSE deferreds[i]]
    /\ UNCHANGED <<_queued_errors, _queued_responses>>

\* error() while a request is pending: pop, errback
ErrorPending(reason) ==
    /\ _pending_requests # <<>>
    /\ _pending_requests' = Tail0(_pending_requests)
    /\ LET i == _pending_requests[1]
       IN  deferreds' = [deferreds EXCEPT ![i] = Errback(@, reason)]
    /\ UNCHANGED <<_queued_errors, _queued_responses>>

\* error() while nothing is pending: queued
ErrorQueued(reason) ==
    /\ _pending_requests = <<>>
    /\ Len(_queued_errors) < MaxQueued
    /\ _queued_errors' = Append(_queued_errors, reason)
    /\ UNCHANGED <<deferreds, _pending_requests, _queued_responses>>

error(reason) ==
    /\ IsFake
    /\ \/ ErrorPending(reason)
       \/ ErrorQueued(reason)
    /\ UNCHANGED <<obj, connected, disconnected>>
    /\ UNCHANGED <<backendVars, version>>

\* the loop of _loseConnection: errback(ConnectionDone()) on every pending
\* request whose Deferred has not been called
FlushPending(ds, pend) ==
    [i \in 1..Len(ds) |->
        IF (\E k \in 1..Len(pend) : pend[k] = i) /\ ~ds[i].called
        THEN Errback(ds[i], [type |-> "ConnectionDone"])
        ELSE ds[i]]

\* mutant of _loseConnection: the flag is flipped instead of cleared
_loseConnection_Toggle ==
    /\ IsFake
    /\ connected' = ~connected
    /\ deferreds' = FlushPending(deferreds, _pending_requests)
    /\ disconnected' = TRUE
    /\ UNCHANGED <<obj, _pending_requests, _queued_errors, _queued_responses>>
    /\ UNCHANGED <<backendVars, version>>

\* the exception _loseConnection raises: disconnected.callback(None) on a
\* Deferred that has fired
_loseConnectionExc == IF disconnected THEN "AlreadyCalledError" ELSE "none"

_loseConnection ==
    /\ IsFake
    /\ connected' = FALSE
    /\ deferreds' = FlushPending(deferreds, _pending_requests)
    /\ disconnected' = TRUE
    /\ UNCHANGED <<obj, _pending_requests, _queued_errors, _queued_responses>>
    /\ UNCHANGED <<backendVars, version>>

----------------------------------------------------------------------------
(* FakeAPIBackend, with the APIClientProtocol it is the transport of.       *)
(* A call on the backend runs synchronously through the protocol and the   *)
(* callbacks of the Deferreds it fires, so each operator below maps the    *)
(* whole state b of the backend to the state after the call.               *)

IsBackend == obj = "FakeAPIBackend"

\* the state of the backend and of what it drives, as one value
Backend ==
    [requests |-> requests, pending |-> pending, protocol |-> protocol,
     watcher |-> watcher, deferreds |-> deferreds, written |-> written]

\* all of it assigned
Commit(b) ==
    /\ requests' = b.requests
    /\ pending' = b.pending
    /\ protocol' = b.protocol
    /\ watcher' = b.watcher
    /\ deferreds' = b.deferreds
    /\ written' = b.written

\* mutant of write: the request id is appended to pending a second time
write_Twice(b, payload) ==
    LET request_id == payload.RequestId
    IN  [b EXCEPT !.pending = Append(Append(@, request_id), request_id),
                  !.requests = (request_id :> payload) @@ @,
                  !.written = Append(@, payload)]

\* FakeAPIBackend.write(data): data is the JSON text of the payload
write(b, payload) ==
    LET request_id == payload.RequestId
    IN  [b EXCEPT !.pending = Append(@, request_id),
                  !.requests = (request_id :> payload) @@ @,
                  !.written = Append(@, payload)]

\* mutant of MaxKey: min() in place of max()
MaxKey_Min(keys) == CHOOSE k \in keys : \A j \in keys : k <= j

\* max(self.requests.keys())
MaxKey(keys) == CHOOSE k \in keys : \A j \in keys : j <= k

\* FakeAPIBackend.last (ValueError on an empty requests is not modelled:
\* last is only read once something was written)
last == requests[MaxKey(DOMAIN requests)]

\* FakeAPIBackend.lastRequestId
lastRequestId == last.RequestId

\* list.remove(x): the first occurrence
Remove(s, x) ==
    LET at == CHOOSE i \in 1..Len(s) : s[i] = x /\ \A j \in 1..(i - 1) : s[j] # x
    IN  SubSeq(s, 1, at - 1) \o SubSeq(s, at + 1, Len(s))

\* x in list
In(s, x) == \E i \in 1..Len(s) : s[i] = x

----------------------------------------------------------------------------
(* txjuju.protocol.APIClientProtocol and the Delta Stream Consumer: their  *)
(* code is not part of the sources at hand; they follow the                *)
(* specification's sections 4.1 to 4.5.                                    *)

\* 4.5 Error Classifier: by error code; the table is configuration, and any
\* code not in it is a GenericRequestError
StoppedCode == "watcher stopped"
RetriableCode == "try again"
\* mutant of Classify: a code that is not in the table is taken as transient
Classify_Retry(code) ==
    CASE code = "unauthorized" -> "AuthenticationError"
      [] code = RetriableCode -> "RetriableError"
      [] code = StoppedCode -> "WatcherStoppedError"
      [] OTHER -> "RetriableError"

Classify(code) ==
    CASE code = "unauthorized" -> "AuthenticationError"
      [] code = RetriableCode -> "RetriableError"
      [] code = StoppedCode -> "WatcherStoppedError"
      [] OTHER -> "GenericRequestError"

\* 4.1 the next request id: starting at 1, strictly increasing
NextRequestId(p) == p.requestId + 1

\* 4.1 send: allocate the id, store the pending entry, emit the envelope
Send(b, req) ==
    LET id == NextRequestId(b.protocol)
        payload == [RequestId |-> id, Type |-> req[1],
                    Request |-> req[2], Id |-> req[3],
                    Version |-> req[5]]
        b1 == [b EXCEPT !.protocol.requestId = id,
                        !.protocol.pending = (id :> (Len(b.deferreds) + 1)) @@ @,
                        !.deferreds = Append(@, Deferred(req, id))]
    IN  write(b1, payload)

\* 4.4 decode of a batch: one ChangeRecord per element of a known kind, in
\* order; an element of an unrecognized kind is skipped
KnownKinds == {"annotation", "application", "service", "unit", "machine"}
DecodeBatch(deltas) ==
    LET known(e) == e[1] \in KnownKinds
        kept == SelectSeq(deltas, known)
    IN  [i \in 1..Len(kept) |->
            [kind |-> IF kept[i][1] = "service" THEN "application" ELSE kept[i][1],
             verb |-> kept[i][2], fields |-> kept[i][3]]]

\* mutant of WatchNext: two "next batch" calls are issued at once
WatchNext_Twice(b) ==
    LET b1 == Send(b, <<"AllWatcher", "Next", b.watcher.handle, "None", "1">>)
        b2 == Send(b1, <<"AllWatcher", "Next", b.watcher.handle, "None", "1">>)
    IN  [b2 EXCEPT !.watcher.state = "polling",
                   !.watcher.call = Len(b2.deferreds)]

\* 4.4 (2) issue a "next batch" call bound to the handle
WatchNext(b) ==
    LET b1 == Send(b, <<"AllWatcher", "Next", b.watcher.handle, "None", "1">>)
    IN  [b1 EXCEPT !.watcher.state = "polling",
                   !.watcher.call = Len(b1.deferreds)]

\* 4.4 (3), (4) the loop ends and the subscriber is told why
WatchEnd(b, why) ==
    [b EXCEPT !.watcher.state = "stopped", !.watcher.call = 0,
              !.watcher.handle = "None",
              !.watcher.terminal = Append(@, why)]

\* 4.4 the consumer's callbacks on the Deferred of its outstanding call
WatchReact(b, i) ==
    LET d == b.deferreds[i]
    IN  IF i # b.watcher.call THEN b
        ELSE IF d.result.kind = "errback" THEN WatchEnd(b, d.result.failure.type)
        ELSE IF b.watcher.state = "starting"
             THEN WatchNext([b EXCEPT !.watcher.handle =
                                          d.result.value.AllWatcherId])
        ELSE WatchNext([b EXCEPT !.watcher.published =
                                     Append(@, DecodeBatch(d.result.value.Deltas))])

\* 4.1 resolve / reject, 4.2 decode by shape: an Error field makes an error
\* envelope; an id with no pending entry is reported as unmatched
DataReceived(b, payload) ==
    LET rid == payload.RequestId
    IN  IF rid \notin DOMAIN b.protocol.pending
        THEN [b EXCEPT !.protocol.unmatched = @ + 1]
        ELSE LET i == b.protocol.pending[rid]
                 d == IF "Error" \in DOMAIN payload
                      THEN Errback(b.deferreds[i],
                                   [type |-> Classify(payload.ErrorCode),
                                    error |-> payload.Error,
                                    code |-> payload.ErrorCode])
                      ELSE Callback(b.deferreds[i], payload.Response)
                 left == DOMAIN b.protocol.pending \ {rid}
                 b1 == [b EXCEPT !.deferreds[i] = d,
                                 !.protocol.pending =
                                     [k \in left |-> b.protocol.pending[k]]]
             IN  WatchReact(b1, i)

\* mutant of ConnectionLost: the consumer is told to stop on every
\* notification, whatever its state
ConnectionLost_Always(b) ==
    LET ids == DOMAIN b.protocol.pending
        lost == {b.protocol.pending[k] : k \in ids}
        b1 == [b EXCEPT !.deferreds =
                            [i \in 1..Len(@) |->
                                IF i \in lost
                                THEN Errback(@[i], [type |-> "ConnectionLost"])
                                ELSE @[i]],
                        !.protocol.pending = <<>>,
                        !.protocol.lost = @ + 1]
    IN  WatchEnd(b1, "ConnectionLost")

\* 4.3 connection lost: every pending entry is rejected, the consumer stops
ConnectionLost(b) ==
    LET ids == DOMAIN b.protocol.pending
        lost == {b.protocol.pending[k] : k \in ids}
        b1 == [b EXCEPT !.deferreds =
                            [i \in 1..Len(@) |->
                                IF i \in lost
                                THEN Errback(@[i], [type |-> "ConnectionLost"])
                                ELSE @[i]],
                        !.protocol.pending = <<>>,
                        !.protocol.lost = @ + 1]
    IN  IF b.watcher.state \in {"starting", "polling"}
        THEN WatchEnd(b1, "ConnectionLost")
        ELSE b1

----------------------------------------------------------------------------
(* FakeAPIBackend: the test-oriented calls *)

\* mutant of _fire: the requestId given is ignored when the oldest pending
\* request is a call of the same name
_fire_Oldest(b, payload, requestId) ==
    IF requestId = NoId /\ b.pending = <<>>
    THEN [b |-> b, exc |-> "IndexError"]
    ELSE LET asked == IF requestId = NoId THEN b.pending[1] ELSE requestId
             rid == IF /\ In(b.pending, asked)
                       /\ b.requests[b.pending[1]].Request = b.requests[asked].Request
                    THEN b.pending[1]
                    ELSE asked
         IN  IF ~In(b.pending, rid)
             THEN [b |-> b, exc |-> "ValueError"]
             ELSE [b |-> DataReceived([b EXCEPT !.pending = Remove(@, rid)],
                                      [RequestId |-> rid] @@ payload),
                   exc |-> "none"]

\* mutant of _fire: without a requestId the newest pending request is taken
\* when it is a call of the same name as the oldest
_fire_Newest(b, payload, requestId) ==
    IF requestId = NoId /\ b.pending = <<>>
    THEN [b |-> b, exc |-> "IndexError"]
    ELSE LET newest == b.pending[Len(b.pending)]
             rid == IF requestId # NoId THEN requestId
                    ELSE IF b.requests[newest].Request = b.requests[b.pending[1]].Request
                         THEN newest
                         ELSE b.pending[1]
         IN  IF ~In(b.pending, rid)
             THEN [b |-> b, exc |-> "ValueError"]
             ELSE [b |-> DataReceived([b EXCEPT !.pending = Remove(@, rid)],
                                      [RequestId |-> rid] @@ payload),
                   exc |-> "none"]

\* FakeAPIBackend._fire: the state after it and the exception it raised
_fire(b, payload, requestId) ==
    IF requestId = NoId /\ b.pending = <<>>
    THEN [b |-> b, exc |-> "IndexError"]
    ELSE LET rid == IF requestId = NoId THEN b.pending[1] ELSE requestId
         IN  IF ~In(b.pending, rid)
             THEN [b |-> b, exc |-> "ValueError"]
             ELSE [b |-> DataReceived([b EXCEPT !.pending = Remove(@, rid)],
                                      [RequestId |-> rid] @@ payload),
                   exc |-> "none"]

\* the request id _fire picks, NoId when it raises before picking one
Target(requestId) ==
    IF requestId = NoId
    THEN IF pending = <<>> THEN NoId ELSE pending[1]
    ELSE IF In(pending, requestId) THEN requestId ELSE NoId

\* the payload is one the server sends for the request it answers: the
\* watcher id for WatchAll, a batch of deltas for Next, the watcher-stopped
\* error for a call on the watcher only; and the follow-up call of the
\* consumer has the id after the bound at most
Answers(requestId, payload) ==
    LET rid == Target(requestId)
        asked == requests[rid].Request
    IN  rid # NoId =>
          /\ "Response" \in DOMAIN payload =>
                /\ "AllWatcherId" \in DOMAIN payload.Response <=> asked = "WatchAll"
                /\ "Deltas" \in DOMAIN payload.Response <=> asked = "Next"
          /\ "Error" \in DOMAIN payload =>
                (payload.ErrorCode = StoppedCode => asked \in {"WatchAll", "Next"})
          /\ (rid \in DOMAIN protocol.pending
                /\ protocol.pending[rid] = watcher.call
                /\ "Response" \in DOMAIN payload)
              => protocol.requestId <= MaxRequests

\* a caller's sendRequest on the protocol
send(entityType, requestInfo) ==
    /\ IsBackend
    /\ connected
    /\ protocol.requestId < MaxRequests
    /\ Commit(Send(Backend, Request(entityType, requestInfo)))
    /\ UNCHANGED <<obj, connected, version>>
    /\ UNCHANGED fakeVars

\* 4.4 (1) the consumer issues the "start all changes" call
watch ==
    /\ IsBackend
    /\ connected
    /\ watcher.state = "idle"
    /\ protocol.requestId < MaxRequests
    /\ LET b1 == Send(Backend, Request("Client", "WatchAll"))
       IN  Commit([b1 EXCEPT !.watcher.state = "starting",
                             !.watcher.call = Len(b1.deferreds)])
    /\ UNCHANGED <<obj, connected, version>>
    /\ UNCHANGED fakeVars

\* FakeAPIBackend.response(response, requestId)
Backend_response(resp, requestId) ==
    /\ IsBackend
    /\ Answers(requestId, [Response |-> resp])
    /\ LET r == _fire(Backend, [Response |-> resp], requestId)
       IN  Commit(r.b)
    /\ UNCHANGED <<obj, connected, version>>
    /\ UNCHANGED fakeVars

\* FakeAPIBackend.responseWatchAll()
responseWatchAll ==
    /\ IsBackend
    /\ Answers(NoId, [Response |-> [AllWatcherId |-> "1"]])
    /\ LET r == _fire(Backend, [Response |-> [AllWatcherId |-> "1"]], NoId)
       IN  Commit(r.b)
    /\ UNCHANGED <<obj, connected, version>>
    /\ UNCHANGED fakeVars

\* FakeAPIBackend._formatAnnotationInfo
_formatAnnotationInfo(info, verb) ==
    <<"annotation", verb, [Annotations |-> info.pairs, Tag |-> info.name]>>

\* FakeAPIBackend._formatJujuApplicationInfo
_formatJujuApplicationInfo(info, verb) ==
    LET entityName == IF version = 1 THEN "service" ELSE "application"
    IN  <<entityName, verb, [Name |-> info.name, CharmURL |-> info.charmURL]>>

\* FakeAPIBackend._formatUnitInfo
_formatUnitInfo(info, verb) ==
    <<"unit", verb, [Name |-> info.name, Service |-> info.applicationName,
                     CharmURL |-> info.charmURL]>>

\* FakeAPIBackend._formatMachineInfo
_formatMachineInfo(info, verb) ==
    <<"machine", verb, [Id |-> info.id, InstanceId |-> info.instanceId,
                        Status |-> info.status]>>

\* the classes a _format method exists for
Formatted == {"AnnotationInfo", "JujuApplicationInfo", "UnitInfo", "MachineInfo"}

\* getattr(self, "_format" + class name)(*delta)
formatter(info, verb) ==
    CASE info.class = "AnnotationInfo" -> _formatAnnotationInfo(info, verb)
      [] info.class = "JujuApplicationInfo" -> _formatJujuApplicationInfo(info, verb)
      [] info.class = "UnitInfo" -> _formatUnitInfo(info, verb)
      [] info.class = "MachineInfo" -> _formatMachineInfo(info, verb)

\* a delta that is no tuple becomes (delta, "change"); a bare entity is
\* written here as a delta whose verb is "None"
AsTuple(delta) ==
    IF delta.verb = "None" THEN [delta EXCEPT !.verb = "change"] ELSE delta

\* mutant of FormatDeltas: each entry is put in front of the list
FormatDeltas_Reversed(deltas) ==
    [i \in 1..Len(deltas) |->
        formatter(AsTuple(deltas[Len(deltas) + 1 - i]).entity,
                  AsTuple(deltas[Len(deltas) + 1 - i]).verb)]

\* the responses list of responseDeltas
FormatDeltas(deltas) ==
    [i \in 1..Len(deltas) |->
        formatter(AsTuple(deltas[i]).entity, AsTuple(deltas[i]).verb)]

\* getattr fails on an entity of a class without a _format method
Unformatted(deltas) ==
    \E i \in 1..Len(deltas) : deltas[i].entity.class \notin Formatted

\* the exception responseDeltas raises: getattr's AttributeError, else that
\* of _fire
responseDeltasExc(deltas) ==
    IF Unformatted(deltas)
    THEN "AttributeError"
    ELSE _fire(Backend, [Response |-> [Deltas |-> FormatDeltas(deltas)]], NoId).exc

\* FakeAPIBackend.responseDeltas(deltas): nothing is fired when it raises
responseDeltas(deltas) ==
    /\ IsBackend
    /\ IF Unformatted(deltas)
       THEN /\ UNCHANGED backendVars
            /\ UNCHANGED deferreds
       ELSE /\ Answers(NoId, [Response |-> [Deltas |-> FormatDeltas(deltas)]])
            /\ LET r == _fire(Backend,
                              [Response |-> [Deltas |-> FormatDeltas(deltas)]],
                              NoId)
               IN  Commit(r.b)
    /\ UNCHANGED <<obj, connected, version>>
    /\ UNCHANGED fakeVars

\* FakeAPIBackend.error(exception, requestId)
Backend_error(exception, requestId) ==
    /\ IsBackend
    /\ Answers(requestId, [Error |-> exception.error,
                           ErrorCode |-> exception.code])
    /\ LET r == _fire(Backend, [Error |-> exception.error,
                                ErrorCode |-> exception.code], requestId)
       IN  Commit(r.b)
    /\ UNCHANGED <<obj, connected, version>>
    /\ UNCHANGED fakeVars

\* FakeAPIBackend.loseConnection()
loseConnection ==
    /\ IsBackend
    /\ protocol.lost < MaxLost
    /\ connected' = FALSE
    /\ Commit(ConnectionLost(Backend))
    /\ UNCHANGED <<obj, version>>
    /\ UNCHANGED fakeVars

----------------------------------------------------------------------------

Init ==
    /\ obj \in {"FakeAPIClientProtocol", "FakeAPIBackend"}
    /\ connected = TRUE
    /\ deferreds = <<>>
    /\ disconnected = FALSE
    /\ _pending_requests = <<>>
    /\ _queued_errors = <<>>
    /\ _queued_responses = <<>>
    /\ requests = <<>>
    /\ pending = <<>>
    /\ version \in (IF IsBackend THEN Versions ELSE {1})
    /\ protocol = [requestId |-> 0, pending |-> <<>>, unmatched |-> 0, lost |-> 0]
    /\ watcher = [state |-> "idle", call |-> 0, handle |-> "None",
                  published |-> <<>>, terminal |-> <<>>]
    /\ written = <<>>

Next ==
    \/ \E k \in RequestKinds : sendRequest(k[1], k[2])
    \/ \E k \in RequestKinds, c \in Contents : response(k[1], k[2], c)
    \/ \E r \in Reasons : error(r)
    \/ _loseConnection
    \/ \E k \in Calls : send(k[1], k[2])
    \/ watch
    \/ \E c \in Contents, id \in RequestIds : Backend_response(c, id)
    \/ responseWatchAll
    \/ \E d \in DeltaBatches : responseDeltas(d)
    \/ \E e \in Exceptions, id \in RequestIds : Backend_error(e, id)
    \/ loseConnection

Spec == Init /\ [][Next]_vars

----------------------------------------------------------------------------
(* Properties *)

\* the Deferreds that fire in a step
Resolved == {i \in 1..Len(deferreds) : ~deferreds[i].called /\ deferreds'[i].called}

\* the Deferreds a step changes
Changed == {i \in 1..Len(deferreds) : deferreds'[i] # deferreds[i]}

\* the Deferreds that request id rid, fired on the backend, has to fire:
\* the one tied to rid if it has a pending entry, none otherwise
Outcome(rid) ==
    IF rid \in DOMAIN protocol.pending
    THEN {i \in 1..Len(deferreds) : deferreds[i].id = rid}
    ELSE {}

\* a step that fires a payload for requestId on the backend takes the id
\* it picks out of pending
Fires(requestId) ==
    /\ IsBackend
    /\ Target(requestId) # NoId
    /\ Len(pending') < Len(pending) \/ pending'[Len(pending')] \notin DOMAIN requests

\* C1: the request ids of the sendRequest calls made on the protocol start at
\* 1 and strictly increase in the order of the calls, each Deferred is tied
\* to the id written for it, and FakeAPIBackend.last is the payload of the
\* most recent write.
C1_IdsIncrease ==
    IsBackend =>
      /\ Len(written) = Len(deferreds)
      /\ \A i \in 1..Len(written) : deferreds[i].id = written[i].RequestId
      /\ written # <<>> => written[1].RequestId = 1
      /\ \A i, j \in 1..Len(written) :
            i < j => written[i].RequestId < written[j].RequestId
      /\ written # <<>> => last = written[Len(written)]

\* C1 witness: three calls made back to back, none answered yet
C1_Witness ==
    /\ IsBackend
    /\ Len(written) = 3
    /\ \A i \in 1..3 : ~deferreds[i].called
    /\ lastRequestId = 3

\* C2: a Deferred that has fired is never changed again, and a response or
\* an error fired for a request id fires the Deferred of that id and no
\* other, with the payload that was fired.
C2_OwnIdOnce ==
    [][/\ \A i \in 1..Len(deferreds) :
             deferreds[i].called => deferreds'[i] = deferreds[i]
       /\ \A c \in Contents, id \in RequestIds :
             (Fires(id) /\ Backend_response(c, id)) =>
               /\ Changed = Outcome(Target(id))
               /\ \A i \in Changed :
                     deferreds'[i].result = [kind |-> "callback", value |-> c]
       /\ \A e \in Exceptions, id \in RequestIds :
             (Fires(id) /\ Backend_error(e, id)) =>
               /\ Changed = Outcome(Target(id))
               /\ \A i \in Changed :
                     /\ deferreds'[i].result.kind = "errback"
                     /\ deferreds'[i].result.failure.code = e.code
                     /\ deferreds'[i].result.failure.error = e.error
      ]_vars

\* C2 witness: with ids 1 and 2 pending, 2 was answered first
C2_Witness ==
    /\ IsBackend
    /\ Len(deferreds) >= 2
    /\ deferreds[2].result = [kind |-> "callback", value |-> [Value |-> "c2"]]
    /\ ~deferreds[1].called
    /\ pending[1] = 1

\* a Deferred failed by the loss of the connection
Lost(d) ==
    /\ d.result.kind = "errback"
    /\ d.result.failure.type \in {"ConnectionDone", "ConnectionLost"}

\* a Deferred failed by an error sent for its request
RequestError(d) == d.result.kind = "errback" /\ ~Lost(d)

\* a step that is a call of _loseConnection or of loseConnection
LoseStep ==
    \/ IsFake /\ _loseConnection
    \/ IsBackend /\ protocol'.lost = protocol.lost + 1

\* C3: when the connection is lost or closed, every Deferred that has not
\* fired fires with a connection-lost failure, and every Deferred that has
\* fired keeps its result.
C3_LossFailsAllUnresolved ==
    [][LoseStep =>
         \A i \in 1..Len(deferreds) :
             IF deferreds[i].called
             THEN deferreds'[i] = deferreds[i]
             ELSE Lost(deferreds'[i])
      ]_vars

\* C4: a second close raises nothing and has no further effect: the
\* connection-lost notification reaches the protocol once, and the
\* disconnected Deferred is fired once.
C4_CloseIdempotent ==
    /\ (IsFake /\ disconnected) => _loseConnectionExc = "none"
    /\ IsBackend => protocol.lost <= 1

\* the first close of the connection
FirstClose == connected /\ (_loseConnection \/ loseConnection)

\* the connection is eventually closed
FairSpec == Spec /\ WF_vars(FirstClose)

\* the number of Deferreds an instance returns within the bounds
MaxOutcomes == IF MaxSends > MaxRequests THEN MaxSends ELSE MaxRequests

\* C5: when the connection is eventually closed, every Deferred ever
\* returned, one returned after the close included, eventually fires.
C5_EventuallyResolved ==
    <>(~connected) =>
      \A i \in 1..MaxOutcomes :
          [](Len(deferreds) >= i
               => <>(Len(deferreds) >= i /\ deferreds[i].called))

\* C6: a response or an error for a request id with no pending entry raises
\* nothing, fires no Deferred, is counted as unmatched and leaves the
\* pending entries as they are.
C6_UnmatchedNeverRaises ==
    /\ IsBackend =>
         \A id \in 1..MaxRequests, c \in Contents :
             id \notin DOMAIN protocol.pending =>
                 LET r == _fire(Backend, [Response |-> c], id)
                 IN  /\ r.exc = "none"
                     /\ r.b.deferreds = deferreds
                     /\ r.b.protocol.pending = protocol.pending
                     /\ r.b.protocol.unmatched = protocol.unmatched + 1
    /\ IsFake =>
         \A k \in RequestKinds :
             (_pending_requests # <<>> /\ deferreds[_pending_requests[1]].called)
                 => responseExc(k[1], k[2]) = "none"

\* C7: once connected is False no call makes it True again.
C7_DisconnectedTerminal == [][~connected => ~connected']_vars

\* C7 witness: a request was sent after the close and is pending
C7_Witness ==
    /\ IsFake
    /\ ~connected
    /\ \E k \in 1..Len(_pending_requests) : ~deferreds[_pending_requests[k]].called

\* C8: a step in which a Deferred fails with an error sent for its request
\* changes that Deferred only, the one of the request the error was fired
\* for, and leaves connected as it is; a step that fires more than one
\* Deferred is a loss of the connection.
C8_ErrorIsRequestScoped ==
    [][/\ Cardinality(Resolved) > 1 => LoseStep
       /\ \A i \in Resolved :
             RequestError(deferreds'[i]) =>
               /\ Changed = {i}
               /\ Len(deferreds') = Len(deferreds)
               /\ connected' = connected
               /\ IsFake => i = _pending_requests[1]
               /\ IsBackend => In(pending, deferreds[i].id)
                                  /\ ~In(pending', deferreds[i].id)
       /\ \A i \in (Len(deferreds) + 1)..Len(deferreds') :
             RequestError(deferreds'[i]) =>
               /\ Changed = {}
               /\ Len(deferreds') = Len(deferreds) + 1
               /\ connected' = connected
       /\ \A r \in Reasons :
             (IsFake /\ error(r)) =>
               /\ connected' = connected
               /\ Len(deferreds') = Len(deferreds)
               /\ \A i \in Changed :
                     /\ i = _pending_requests[1]
                     /\ deferreds'[i].result = [kind |-> "errback", failure |-> r]
               /\ (_pending_requests # <<>> /\ ~deferreds[_pending_requests[1]].called)
                     => Changed # {}
      ]_vars

\* C8 witness: of two pending requests the older failed with an error and
\* the other is still pending
C8_Witness ==
    /\ IsFake
    /\ Len(deferreds) = 2
    /\ RequestError(deferreds[1])
    /\ ~deferreds[2].called
    /\ _pending_requests = <<2>>
    /\ connected

\* the "next batch" calls written so far, and those not answered yet
NextCalls == {i \in 1..Len(written) : written[i].Request = "Next"}
Outstanding ==
    {id \in DOMAIN protocol.pending : requests[id].Request = "Next"}

\* C9: at most one "next batch" call is outstanding; the first is issued
\* once the watch-start call has succeeded with the watcher id, and each
\* later one once the batch before it was answered and published.
C9_OneNextOutstanding ==
    IsBackend =>
      /\ Cardinality(Outstanding) <= 1
      /\ NextCalls # {} =>
            \E i \in 1..Len(deferreds) :
                /\ deferreds[i].request[2] = "WatchAll"
                /\ deferreds[i].result.kind = "callback"
                /\ \A j \in NextCalls :
                      j > i /\ written[j].Id = deferreds[i].result.value.AllWatcherId
      /\ \A i, j \in NextCalls : i < j => deferreds[i].result.kind = "callback"
      /\ Cardinality(NextCalls) <= Len(watcher.published) + 1
      /\ Len(watcher.published) =
            Cardinality({i \in NextCalls : deferreds[i].result.kind = "callback"})

\* C9 witness: a second "next batch" call is outstanding after one batch
\* was published
C9_Witness ==
    /\ IsBackend
    /\ Cardinality(NextCalls) = 2
    /\ Cardinality(Outstanding) = 1
    /\ Len(watcher.published) = 1

\* the "next batch" calls a step issues
NewNextCalls ==
    {i \in (Len(written) + 1)..Len(written') : written'[i].Request = "Next"}

\* a step that ends the watch: the connection is lost, or the outstanding
\* call of the consumer fails as watcher-stopped
EndsWatch ==
    /\ watcher.state \in {"starting", "polling"}
    /\ \/ protocol'.lost = protocol.lost + 1
       \/ /\ deferreds'[watcher.call].result.kind = "errback"
          /\ deferreds'[watcher.call].result.failure.type = "WatcherStoppedError"

\* C10: when the outstanding call fails as watcher-stopped or the connection
\* is lost, the consumer stops, issues no "next batch" call then or later,
\* and tells the subscriber the terminal condition exactly once.
C10_WatchTerminates ==
    [][IsBackend =>
         /\ EndsWatch =>
               /\ watcher'.state = "stopped"
               /\ Len(watcher'.terminal) = 1
               /\ watcher'.terminal[1] \in {"ConnectionLost", "WatcherStoppedError"}
               /\ watcher'.terminal[1] = "ConnectionLost"
                     <=> protocol'.lost = protocol.lost + 1
               /\ NewNextCalls = {}
         /\ watcher.state = "stopped" =>
               /\ watcher' = watcher
               /\ NewNextCalls = {}
               /\ Outstanding = {}
      ]_vars

\* C10 witness: the watch ended as watcher-stopped with a "next batch" call
\* outstanding, and the connection was lost afterwards
C10_Witness ==
    /\ IsBackend
    /\ watcher.state = "stopped"
    /\ watcher.terminal = <<"WatcherStoppedError">>
    /\ NextCalls # {}
    /\ protocol.lost = 1

\* the verb responseDeltas has to emit for a delta
VerbOf(delta) == IF delta.verb = "None" THEN "change" ELSE delta.verb

\* the formatted entry is the one of the delta: its verb, the entity name
\* of its class and the name or id of its entity
EntryOf(entry, delta) ==
    /\ entry[2] = VerbOf(delta)
    /\ CASE delta.entity.class = "MachineInfo" ->
              entry[1] = "machine" /\ entry[3].Id = delta.entity.id
         [] delta.entity.class = "UnitInfo" ->
              entry[1] = "unit" /\ entry[3].Name = delta.entity.name
         [] delta.entity.class = "JujuApplicationInfo" ->
              /\ entry[1] = (IF version = 1 THEN "service" ELSE "application")
              /\ entry[3].Name = delta.entity.name
         [] OTHER -> FALSE

\* the change record is the one of the delta
RecordOf(record, delta) ==
    /\ record.verb = VerbOf(delta)
    /\ CASE delta.entity.class = "MachineInfo" ->
              record.kind = "machine" /\ record.fields.Id = delta.entity.id
         [] delta.entity.class = "UnitInfo" ->
              record.kind = "unit" /\ record.fields.Name = delta.entity.name
         [] delta.entity.class = "JujuApplicationInfo" ->
              record.kind = "application" /\ record.fields.Name = delta.entity.name
         [] OTHER -> FALSE

\* C11: responseDeltas emits one formatted entry per delta, in the order of
\* the deltas, with verb "change" for a bare entity and the verb given for
\* a pair; the batch published for it has the i-th change record for the
\* i-th delta; and a batch is published after those that arrived before.
C11_DeltaOrderKept ==
    [][IsBackend =>
         /\ Len(watcher'.published) >= Len(watcher.published)
         /\ SubSeq(watcher'.published, 1, Len(watcher.published)) = watcher.published
         /\ Len(watcher'.published) <= Len(watcher.published) + 1
         /\ \A d \in DeltaBatches :
               (~Unformatted(d) /\ Len(watcher'.published) > Len(watcher.published)
                  /\ responseDeltas(d)) =>
                 LET entries == FormatDeltas(d)
                     batch == watcher'.published[Len(watcher'.published)]
                 IN  /\ Len(entries) = Len(d)
                     /\ \A i \in 1..Len(d) : EntryOf(entries[i], d[i])
                     /\ Len(batch) = Len(d)
                     /\ \A i \in 1..Len(d) : RecordOf(batch[i], d[i])
      ]_vars

\* C11 witness: the batch (unit removed, application changed) was published
\* in that order, and the batch (machine changed) after it
C11_Witness ==
    /\ IsBackend
    /\ Len(watcher.published) = 2
    /\ Len(watcher.published[1]) = 2
    /\ RecordOf(watcher.published[1][1], [entity |-> Unit0, verb |-> "remove"])
    /\ RecordOf(watcher.published[1][2], [entity |-> App0, verb |-> "None"])
    /\ Len(watcher.published[2]) = 1
    /\ RecordOf(watcher.published[2][1], [entity |-> Machine0, verb |-> "None"])

\* the deltas of a batch whose entity is of a class with a _format method
Recognized(deltas) ==
    LET known(delta) == delta.entity.class \in Formatted
    IN  SelectSeq(deltas, known)

\* a "next batch" call is the oldest pending request: responseDeltas
\* answers it
NextIsOldest ==
    /\ pending # <<>>
    /\ requests[pending[1]].Request = "Next"
    /\ pending[1] \in DOMAIN protocol.pending
    /\ protocol.pending[pending[1]] = watcher.call

\* C12: a batch with an element of an unrecognized entity kind does not fail
\* as a whole: responseDeltas raises nothing, the element is skipped, and
\* the other elements are published in their order.
C12_UnknownElementSkipped ==
    IsBackend =>
      \A d \in DeltaBatches :
          (Unformatted(d) /\ NextIsOldest) =>
            /\ responseDeltasExc(d) = "none"
            /\ LET r == _fire(Backend,
                              [Response |-> [Deltas |-> FormatDeltas(Recognized(d))]],
                              NoId)
                   batch == r.b.watcher.published[Len(r.b.watcher.published)]
               IN  /\ Len(r.b.watcher.published) = Len(watcher.published) + 1
                   /\ Len(batch) = Len(Recognized(d))
                   /\ \A i \in 1..Len(batch) : RecordOf(batch[i], Recognized(d)[i])

\* the kinds of the Error Classifier, the codes its table maps, and codes
\* to classify: those of the errors fired and some the table does not have
ErrorKinds == {"AuthenticationError", "RetriableError", "WatcherStoppedError",
               "GenericRequestError"}
MappedCodes == {"unauthorized", RetriableCode, StoppedCode}
ErrorCodes == {e.code : e \in Exceptions} \cup MappedCodes
                \cup {"", "unauthorized access", "not implemented"}

\* the Deferreds failed by an error envelope
Rejected ==
    {i \in 1..Len(deferreds) :
        /\ deferreds[i].result.kind = "errback"
        /\ "code" \in DOMAIN deferreds[i].result.failure}

\* C13: every error code classifies as one of the four kinds, a code that
\* is not in the table as GenericRequestError and "unauthorized" as
\* AuthenticationError; and the failure a Deferred is rejected with has the
\* kind of the code of its envelope, whatever the message.
C13_ClassifierTotal ==
    /\ \A code \in ErrorCodes :
          /\ Classify(code) \in ErrorKinds
          /\ code \notin MappedCodes => Classify(code) = "GenericRequestError"
    /\ Classify("unauthorized") = "AuthenticationError"
    /\ IsBackend =>
          \A i \in Rejected :
              LET failure == deferreds[i].result.failure
              IN  /\ failure.type = Classify(failure.code)
                  /\ failure.type \in ErrorKinds
                  /\ failure.code = "unauthorized" <=> failure.type = "AuthenticationError"
                  /\ failure.code \notin MappedCodes <=> failure.type = "GenericRequestError"

\* C13 witness: one request was rejected with code "unauthorized" and one
\* with a code that is not in the table
C13_Witness ==
    /\ IsBackend
    /\ \E i, j \in Rejected :
          /\ deferreds[i].result.failure.code = "unauthorized"
          /\ deferreds[i].result.failure.type = "AuthenticationError"
          /\ deferreds[j].result.failure.code = "not found"
          /\ deferreds[j].result.failure.type = "GenericRequestError"

\* a step that is a response or an error fired without a requestId fires
\* the Deferred tied to request id rid, with the payload given, and takes
\* rid out of pending
FiresDefaultFor(rid) ==
    /\ \A c \in Contents :
          (Fires(NoId) /\ Backend_response(c, NoId)) =>
            /\ Changed = Outcome(rid)
            /\ ~In(pending', rid)
            /\ \A i \in Changed :
                  deferreds'[i].result = [kind |-> "callback", value |-> c]
    /\ \A e \in Exceptions :
          (Fires(NoId) /\ Backend_error(e, NoId)) =>
            /\ Changed = Outcome(rid)
            /\ ~In(pending', rid)
            /\ \A i \in Changed :
                  /\ deferreds'[i].result.kind = "errback"
                  /\ deferreds'[i].result.failure.code = e.code

C15_QueuedResponseFiresNext ==
    [][\A k \in RequestKinds :
         (/\ IsFake
          /\ _queued_responses # <<>>
          /\ <<_queued_responses[1][1], _queued_responses[1][2]>> = k
          /\ sendRequest(k[1], k[2])) =>
            /\ Len(deferreds') = Len(deferreds) + 1
            /\ deferreds'[Len(deferreds')].result =
                  [kind |-> "callback", value |-> _queued_responses[1][3]]
            /\ _queued_responses' = Tail0(_queued_responses)
      ]_vars

\* a response() or error() step with a request pending fires the Deferred
\* of the oldest pending request, and no other, with the result given and
\* removes that request alone
ResolvesOldest(result) ==
    LET i == _pending_requests[1]
    IN  /\ _pending_requests' = Tail0(_pending_requests)
        /\ Resolved = {i}
        /\ Changed = {i}
        /\ deferreds'[i].result = result
        /\ Len(deferreds') = Len(deferreds)
        /\ UNCHANGED <<_queued_responses, _queued_errors>>

\* a sendRequest step with something queued takes the oldest queued error,
\* or else the oldest queued response, and nothing more from the queues
ConsumesOldestQueued ==
    /\ _pending_requests' = _pending_requests
    /\ Changed = {}
    /\ IF _queued_errors # <<>>
       THEN /\ _queued_errors' = Tail0(_queued_errors)
            /\ _queued_responses' = _queued_responses
            /\ deferreds'[Len(deferreds')].result =
                  [kind |-> "errback", failure |-> _queued_errors[1]]
       ELSE /\ _queued_responses' = Tail0(_queued_responses)
            /\ _queued_errors' = _queued_errors
            /\ Len(deferreds') > Len(deferreds) =>
                  deferreds'[Len(deferreds')].result =
                    [kind |-> "callback", value |-> _queued_responses[1][3]]

\* C16: requests are resolved first-in first-out: every response() and
\* error() call made while requests are pending fires the oldest pending
\* request and removes it alone, and every sendRequest made while
\* something is queued consumes the oldest queued error or response.
C16_FirstInFirstOut ==
    [][IsFake =>
         /\ \A k \in RequestKinds, c \in Contents :
               (_pending_requests # <<>> /\ response(k[1], k[2], c)) =>
                 ResolvesOldest([kind |-> "callback", value |-> c])
         /\ \A r \in Reasons :
               (_pending_requests # <<>> /\ error(r)) =>
                 ResolvesOldest([kind |-> "errback", failure |-> r])
         /\ \A k \in RequestKinds :
               ((_queued_errors # <<>> \/ _queued_responses # <<>>)
                  /\ sendRequest(k[1], k[2])) => ConsumesOldestQueued
      ]_vars

\* C17: once the connection is lost no pending entry is left for a request
\* failed by the disconnection: FakeAPIBackend.pending is empty and
\* _pending_requests, and with it `request` and `requests`, holds no request
\* whose Deferred has fired, so response() and error() cannot reach one.
C17_PendingDestroyedOnLoss ==
    ~connected =>
      /\ IsBackend => pending = <<>> /\ DOMAIN protocol.pending = {}
      /\ IsFake =>
            /\ \A k \in 1..Len(_pending_requests) :
                  ~deferreds[_pending_requests[k]].called
            /\ \A k \in RequestKinds :
                  responseExc(k[1], k[2]) # "AlreadyCalledError"
            /\ errorExc # "AlreadyCalledError"

\* the oldest pending request is not one of entityType and requestInfo
Mismatch(entityType, requestInfo) ==
    /\ _pending_requests # <<>>
    /\ SubSeq(deferreds[_pending_requests[1]].request, 1, 2)
         # <<entityType, requestInfo>>

\* C18: response() raises AssertionError exactly when the oldest pending
\* request is of another entityType or request; a call that raises it fires
\* no Deferred and leaves the request pending.
C18_MismatchKeepsPending ==
    [][\A k \in RequestKinds, c \in Contents :
         (IsFake /\ response(k[1], k[2], c)) =>
           /\ responseExc(k[1], k[2]) = "AssertionError" <=> Mismatch(k[1], k[2])
           /\ Mismatch(k[1], k[2]) =>
                 /\ _pending_requests' = _pending_requests
                 /\ Changed = {}
      ]_vars

\* C19: in FakeAPIClientProtocol a request is pending only while nothing is
\* queued: when _pending_requests is not empty, _queued_responses and
\* _queued_errors are both empty.
C19_PendingOrQueued ==
    (IsFake /\ _pending_requests # <<>>) =>
        /\ _queued_responses = <<>>
        /\ _queued_errors = <<>>

\* C19 witness: a request was answered at once from a queue, the queues
\* were used up and the next request is pending
C19_Witness ==
    /\ IsFake
    /\ Len(deferreds) = 2
    /\ deferreds[1].result.kind = "errback"
    /\ ~Lost(deferreds[1])
    /\ _pending_requests = <<2>>
    /\ ~deferreds[2].called
    /\ _queued_responses = <<>>
    /\ _queued_errors = <<>>

\* the request ids written, in the order of the writes
WrittenIds == [i \in 1..Len(written) |-> written[i].RequestId]

\* pending lists written ids, each once, in the order they were written,
\* each a key of requests; requests holds every payload written
PendingWellFormed ==
    /\ \A i \in 1..Len(pending) : In(WrittenIds, pending[i])
    /\ \A i, j \in 1..Len(pending) : i # j => pending[i] # pending[j]
    /\ \A i, j \in 1..Len(pending) :
          i < j => \E m, n \in 1..Len(written) :
                      m < n /\ WrittenIds[m] = pending[i] /\ WrittenIds[n] = pending[j]
    /\ \A i \in 1..Len(pending) : pending[i] \in DOMAIN requests
    /\ DOMAIN requests = {WrittenIds[i] : i \in 1..Len(written)}
    /\ \A i \in 1..Len(written) : requests[WrittenIds[i]] = written[i]

\* the ids a step takes out of pending
Fired == {id \in DOMAIN requests : In(pending, id) /\ ~In(pending', id)}

\* C20: pending is the sequence of the written request ids that were not
\* fired, in the order of the writes and without duplicates, each a key of
\* requests; a step fires at most one id, a fired id never comes back,
\* the ids written in the step are appended, and requests loses no entry.
C20_PendingIsUnfiredWrites ==
    [][IsBackend =>
         /\ PendingWellFormed'
         /\ Cardinality(Fired) <= 1
         /\ LoseStep => Fired = {}
         /\ \A id \in DOMAIN requests : ~In(pending, id) => ~In(pending', id)
         /\ \A i \in (Len(written) + 1)..Len(written') :
               In(pending', written'[i].RequestId)
         /\ LET kept(id) == id \notin Fired
            IN  SubSeq(pending', 1, Len(pending) - Cardinality(Fired))
                  = SelectSeq(pending, kept)
         /\ \A id \in DOMAIN requests :
               id \in DOMAIN requests' /\ requests'[id] = requests[id]
      ]_vars

\* C20 witness: of three requests written the second was fired; the first
\* and the third are pending, in that order, and requests holds all three
C20_Witness ==
    /\ IsBackend
    /\ Len(written) = 3
    /\ pending = <<1, 3>>
    /\ DOMAIN requests = {1, 2, 3}
    /\ deferreds[2].called

====
